---- MODULE Spec2Model ----
(***************************************************************************)
(* Model of Leonard_FigS10.ipynb.                                          *)
(*                                                                         *)
(* Cell 1: calculate_mutation_frequencies(input_csv_file, base_sequence,   *)
(*         output_csv_file) scans the 'sequence' column of a CSV file,     *)
(*         counts the mismatches against base_sequence per position and    *)
(*         symbol, and writes a Position x amino-acid frequency table.     *)
(* Cell 2: plot_mutation_heatmap_v6(input_csv_file, positions_to_plot,     *)
(*         highlight_cells, output_filename) draws selected rows of such a *)
(*         table as a grid of rectangles and saves the figure.             *)
(*                                                                         *)
(* Python indices are kept 0-based as in the source; a Python string s is  *)
(* a TLA+ sequence, so Python s[i] is s[i + 1] here.  A formatted number   *)
(* f"{x:.6f}" is modelled by the integer number of millionths it shows     *)
(* ("0.250000" is 250000).                                                 *)
(***************************************************************************)
EXTENDS Integers, Sequences, FiniteSets, TLC

VARIABLES
    \* ---- calculate_mutation_frequencies: arguments and files
    input_exists,      \* the path input_csv_file names an existing file
    fieldnames_ok,     \* 'sequence' in reader.fieldnames
    base_sequence,     \* the argument base_sequence
    records,           \* the data rows of the input file, in file order
    outFile,           \* the file at output_csv_file: [exists, header, rows]
    \* ---- calculate_mutation_frequencies: locals and control
    pc,                \* position in the function body
    mutation_counts,   \* defaultdict(lambda: defaultdict(int)), line 23
    total_sequences,   \* line 24
    idx,               \* number of rows the reader has yielded so far
    wrow,              \* loop variable i of the write loop, line 55
    inOpen,            \* csvfile (line 29) is open
    outOpen,           \* csvoutfile (line 50) is open
    msg,               \* the last status line printed by the current call
    warnings,          \* number of "Skipping" warnings printed by the call
    calls,             \* number of calls made so far
    outAtCall,         \* history: outFile when the current call started
    writtenTables,     \* history: the table left by each successful call, in order
    \* ---- plot_mutation_heatmap_v6: arguments and files
    table_exists,      \* the path input_csv_file names an existing file
    table,             \* the CSV read by pd.read_csv: Position -> column -> value
    positions_to_plot, \* the argument positions_to_plot
    highlight_cells,   \* the argument highlight_cells
    image,             \* the file at output_filename: [exists, patches]
    \* ---- plot_mutation_heatmap_v6: locals and control
    ppc,               \* position in the function body
    df_selected,       \* line 109: the selected rows, in the caller's order
    patches,           \* what was added to the axes, in drawing order
    ci,                \* loop variable i (amino-acid index), line 129
    cj,                \* loop variable j (column index), line 130
    pmsg               \* the status line printed by the call

calcVars == <<input_exists, fieldnames_ok, base_sequence, records, outFile, pc,
              mutation_counts, total_sequences, idx, wrow, inOpen, outOpen, msg,
              warnings, calls, outAtCall, writtenTables>>

plotVars == <<table_exists, table, positions_to_plot, highlight_cells, image, ppc,
              df_selected, patches, ci, cj, pmsg>>

vars == <<calcVars, plotVars>>

----------------------------------------------------------------------------
(* Bounds of the model *)

\* size of the input: the length of the reference sequence plus the number of
\* data rows of the input file is at most MaxSize
MaxSize == 4
\* most calls of calculate_mutation_frequencies in one behaviour
MaxRuns == 2
\* the frequency tables read by the plot have rows among the positions 1..MaxPos
MaxPos == 2
\* longest positions_to_plot
MaxPlot == 3

----------------------------------------------------------------------------
(* Constants of the program *)

\* line 26: amino_acids = 'ACDEFGHIKLMNPQRSTVWY'
amino_acids == <<"A", "C", "D", "E", "F", "G", "H", "I", "K", "L",
                 "M", "N", "P", "Q", "R", "S", "T", "V", "W", "Y">>

\* line 59: f"{frequency:.6f}" shows six decimals, i.e. a number of millionths
Million == 1000000

\* line 52: header = ['Position'] + list(amino_acids)
Header == <<"Position">> \o amino_acids

----------------------------------------------------------------------------
(* Input universe *)

\* Symbols of the modelled reference sequences: two letters of the alphabet.
RefSymbols == {"A", "C"}

\* Symbols of the modelled rows: the same two letters and a lower-case letter,
\* which is outside the alphabet and differs from "A".
Symbols == {"A", "C", "a"}

RECURSIVE StringsOfLen(_, _)
StringsOfLen(S, n) ==
    IF n = 0 THEN {<<>>}
    ELSE {<<c>> \o s : c \in S, s \in StringsOfLen(S, n - 1)}

RECURSIVE ListsUpTo(_, _)
ListsUpTo(S, n) ==
    IF n = 0 THEN {<<>>}
    ELSE ListsUpTo(S, n - 1) \cup
         {<<x>> \o l : x \in S, l \in {m \in ListsUpTo(S, n - 1) : Len(m) = n - 1}}

\* A data row as csv.DictReader yields it, reduced to its 'sequence' field:
\* <<s>> when the field is present, <<>> when the row is too short to have it
\* (DictReader then maps the key to None).
RowWith(s) == <<s>>
ShortRow == <<>>
HasField(row) == Len(row) > 0

\* Rows offered for a reference of length L: every sequence of the right
\* length, one too short (when L > 0), one too long, and the short row.
RowsFor(S, L) ==
    {RowWith(s) : s \in StringsOfLen(S, L)}
    \cup {RowWith(s) : s \in StringsOfLen({"A"}, L + 1)}
    \cup (IF L > 0 THEN {RowWith(s) : s \in StringsOfLen({"A"}, L - 1)} ELSE {})
    \cup {ShortRow}

NoFile == [exists |-> FALSE, header |-> <<>>, rows |-> <<>>]
EmptyDict == [k \in {} |-> 0]

----------------------------------------------------------------------------
(* Pure helpers of calculate_mutation_frequencies *)

\* d[k] += 1 on a defaultdict(int)
IntDictInc(d, k) ==
    IF k \in DOMAIN d
    THEN [d EXCEPT ![k] = @ + 1]
    ELSE [x \in DOMAIN d \cup {k} |-> IF x = k THEN 1 ELSE d[x]]

\* mutation_counts[i]: reading a missing key of the outer defaultdict creates it
Touch(mc, i) ==
    IF i \in DOMAIN mc
    THEN mc
    ELSE [x \in DOMAIN mc \cup {i} |-> IF x = i THEN EmptyDict ELSE mc[x]]

\* line 44: mutation_counts[i][sym] += 1
CountsInc(mc, i, sym) ==
    [Touch(mc, i) EXCEPT ![i] = IntDictInc(@, sym)]

\* Variant of IsMismatch: every position is compared with base_sequence[0]
IsMismatch_AlwaysFirst(sequence, base, i) == sequence[i + 1] # base[1]

\* Variant of IsMismatch: every position counts, equal to the reference or not
IsMismatch_Always(sequence, base, i) == TRUE

\* line 43: the test that decides whether position i of a row is counted
IsMismatch(sequence, base, i) == sequence[i + 1] # base[i + 1]

\* lines 42-44: for i in range(sequence_length), from i on
RECURSIVE CompareFrom(_, _, _, _)
CompareFrom(mc, sequence, base, i) ==
    IF i >= Len(base) THEN mc
    ELSE IF IsMismatch(sequence, base, i)
         THEN CompareFrom(CountsInc(mc, i, sequence[i + 1]), sequence, base, i + 1)
         ELSE CompareFrom(mc, sequence, base, i + 1)

\* line 58: mutation_counts[i].get(aa, 0)
GetCount(mc, i, aa) ==
    IF i \in DOMAIN mc /\ aa \in DOMAIN mc[i] THEN mc[i][aa] ELSE 0

\* lines 58-59: f"{count / total:.6f}" as a number of millionths.  The float
\* quotient is within 2^-53 of count/total and the format rounds it to the
\* nearest millionth, ties to even; for the totals of this model no quotient
\* is that close to a tie, so the exact quotient rounds the same way.
Fmt6(count, total) ==
    LET q == (count * Million) \div total
        r == (count * Million) % total
    IN  IF 2 * r < total THEN q
        ELSE IF 2 * r > total THEN q + 1
        ELSE IF q % 2 = 0 THEN q ELSE q + 1

\* Variant of TableRow: the row is labelled with the 0-based index
TableRow_ZeroBased(mc, total, i) ==
    <<i>> \o [k \in 1..Len(amino_acids) |-> Fmt6(GetCount(mc, i, amino_acids[k]), total)]

\* lines 56-59: the row written for position index i
TableRow(mc, total, i) ==
    <<i + 1>> \o [k \in 1..Len(amino_acids) |-> Fmt6(GetCount(mc, i, amino_acids[k]), total)]

----------------------------------------------------------------------------
(* calculate_mutation_frequencies, lines 13-67 *)

\* lines 23-26: the function is entered and its locals are initialised
Call ==
    /\ pc \in {"idle", "done"}
    /\ calls < MaxRuns
    /\ calls' = calls + 1
    /\ mutation_counts' = EmptyDict
    /\ total_sequences' = 0
    /\ idx' = 0
    /\ wrow' = 0
    /\ msg' = "none"
    /\ warnings' = 0
    /\ outAtCall' = outFile
    /\ pc' = "open_in"
    /\ UNCHANGED <<plotVars, input_exists, fieldnames_ok, base_sequence, records, outFile,
                   inOpen, outOpen, writtenTables>>

\* line 29 when the file is missing: FileNotFoundError, caught at lines 64-65
OpenInputMissing ==
    /\ pc = "open_in"
    /\ ~input_exists
    /\ msg' = "input_not_found"
    /\ pc' = "done"
    /\ UNCHANGED <<plotVars, input_exists, fieldnames_ok, base_sequence, records, outFile,
                   mutation_counts, total_sequences, idx, wrow, inOpen, outOpen,
                   warnings, calls, outAtCall, writtenTables>>

\* lines 29-30: the input file is opened and the reader created
OpenInput ==
    /\ pc = "open_in"
    /\ input_exists
    /\ inOpen' = TRUE
    /\ pc' = "fieldnames"
    /\ UNCHANGED <<plotVars, input_exists, fieldnames_ok, base_sequence, records, outFile,
                   mutation_counts, total_sequences, idx, wrow, outOpen, msg,
                   warnings, calls, outAtCall, writtenTables>>

\* lines 31-33: 'sequence' is not a column: message, return (the with closes)
MissingColumn ==
    /\ pc = "fieldnames"
    /\ ~fieldnames_ok
    /\ msg' = "no_column"
    /\ inOpen' = FALSE
    /\ pc' = "done"
    /\ UNCHANGED <<plotVars, input_exists, fieldnames_ok, base_sequence, records, outFile,
                   mutation_counts, total_sequences, idx, wrow, outOpen,
                   warnings, calls, outAtCall, writtenTables>>

\* line 31: the column is there, the scan starts
ColumnFound ==
    /\ pc = "fieldnames"
    /\ fieldnames_ok
    /\ pc' = "scan"
    /\ UNCHANGED <<plotVars, input_exists, fieldnames_ok, base_sequence, records, outFile,
                   mutation_counts, total_sequences, idx, wrow, inOpen, outOpen, msg,
                   warnings, calls, outAtCall, writtenTables>>

\* Variant of SkipRow: break instead of continue, the scan ends at the row
SkipRow_Breaks ==
    /\ pc = "scan"
    /\ idx < Len(records)
    /\ HasField(records[idx + 1])
    /\ Len(records[idx + 1][1]) # Len(base_sequence)
    /\ warnings' = warnings + 1
    /\ idx' = idx + 1
    /\ inOpen' = FALSE
    /\ pc' = "check"
    /\ UNCHANGED <<plotVars, input_exists, fieldnames_ok, base_sequence, records, outFile,
                   mutation_counts, total_sequences, wrow, outOpen, msg,
                   calls, outAtCall, writtenTables>>

\* Variant of SkipRow: the length test comes after total_sequences += 1
SkipRow_CountsAnyway ==
    /\ pc = "scan"
    /\ idx < Len(records)
    /\ HasField(records[idx + 1])
    /\ Len(records[idx + 1][1]) # Len(base_sequence)
    /\ warnings' = warnings + 1
    /\ total_sequences' = total_sequences + 1
    /\ idx' = idx + 1
    /\ UNCHANGED <<plotVars, input_exists, fieldnames_ok, base_sequence, records, outFile, pc,
                   mutation_counts, wrow, inOpen, outOpen, msg,
                   calls, outAtCall, writtenTables>>

\* lines 35-39: a row of the wrong length: warning, continue
SkipRow ==
    /\ pc = "scan"
    /\ idx < Len(records)
    /\ HasField(records[idx + 1])
    /\ Len(records[idx + 1][1]) # Len(base_sequence)
    /\ warnings' = warnings + 1
    /\ idx' = idx + 1
    /\ UNCHANGED <<plotVars, input_exists, fieldnames_ok, base_sequence, records, outFile, pc,
                   mutation_counts, total_sequences, wrow, inOpen, outOpen, msg,
                   calls, outAtCall, writtenTables>>

\* lines 35-44: a row of the right length is counted
CountRow ==
    /\ pc = "scan"
    /\ idx < Len(records)
    /\ HasField(records[idx + 1])
    /\ Len(records[idx + 1][1]) = Len(base_sequence)
    /\ total_sequences' = total_sequences + 1
    /\ mutation_counts' = CompareFrom(mutation_counts, records[idx + 1][1], base_sequence, 0)
    /\ idx' = idx + 1
    /\ UNCHANGED <<plotVars, input_exists, fieldnames_ok, base_sequence, records, outFile, pc,
                   wrow, inOpen, outOpen, msg, warnings, calls, outAtCall, writtenTables>>

\* Variant of RowWithoutField: the file is opened without a with block, so the
\* exception leaves it open
RowWithoutField_LeavesOpen ==
    /\ pc = "scan"
    /\ idx < Len(records)
    /\ ~HasField(records[idx + 1])
    /\ idx' = idx + 1
    /\ msg' = "unexpected"
    /\ pc' = "done"
    /\ UNCHANGED <<plotVars, input_exists, fieldnames_ok, base_sequence, records, outFile,
                   mutation_counts, total_sequences, wrow, inOpen, outOpen, warnings,
                   calls, outAtCall, writtenTables>>

\* lines 36-37 on a row without the field: row['sequence'] is None and
\* len(None) raises TypeError; the with closes the file, lines 66-67 report it
RowWithoutField ==
    /\ pc = "scan"
    /\ idx < Len(records)
    /\ ~HasField(records[idx + 1])
    /\ idx' = idx + 1
    /\ inOpen' = FALSE
    /\ msg' = "unexpected"
    /\ pc' = "done"
    /\ UNCHANGED <<plotVars, input_exists, fieldnames_ok, base_sequence, records, outFile,
                   mutation_counts, total_sequences, wrow, outOpen, warnings, calls,
                   outAtCall, writtenTables>>

\* line 35 when the reader is exhausted: the with block ends, the file closes
EndScan ==
    /\ pc = "scan"
    /\ idx = Len(records)
    /\ inOpen' = FALSE
    /\ pc' = "check"
    /\ UNCHANGED <<plotVars, input_exists, fieldnames_ok, base_sequence, records, outFile,
                   mutation_counts, total_sequences, idx, wrow, outOpen, msg,
                   warnings, calls, outAtCall, writtenTables>>

\* lines 46-48: no valid sequence: message, return
NoValidSequences ==
    /\ pc = "check"
    /\ total_sequences = 0
    /\ msg' = "no_valid"
    /\ pc' = "done"
    /\ UNCHANGED <<plotVars, input_exists, fieldnames_ok, base_sequence, records, outFile,
                   mutation_counts, total_sequences, idx, wrow, inOpen, outOpen,
                   warnings, calls, outAtCall, writtenTables>>

\* Variant of OpenOutput: the file is opened without truncation, so the rows
\* of an earlier table stay in it
OpenOutput_NoTruncate ==
    /\ pc = "check"
    /\ total_sequences # 0
    /\ outOpen' = TRUE
    /\ outFile' = [exists |-> TRUE, header |-> Header, rows |-> outFile.rows]
    /\ wrow' = 0
    /\ pc' = "write"
    /\ UNCHANGED <<plotVars, input_exists, fieldnames_ok, base_sequence, records,
                   mutation_counts, total_sequences, idx, inOpen, msg,
                   warnings, calls, outAtCall, writtenTables>>

\* lines 50-53: the output file is opened with 'w' (created or truncated) and
\* the header row is written
OpenOutput ==
    /\ pc = "check"
    /\ total_sequences # 0
    /\ outOpen' = TRUE
    /\ outFile' = [exists |-> TRUE, header |-> Header, rows |-> <<>>]
    /\ wrow' = 0
    /\ pc' = "write"
    /\ UNCHANGED <<plotVars, input_exists, fieldnames_ok, base_sequence, records,
                   mutation_counts, total_sequences, idx, inOpen, msg,
                   warnings, calls, outAtCall, writtenTables>>

\* line 50 fails (the path cannot be opened for writing): OSError, no file is
\* created; lines 64-67 report it
OpenOutputFails ==
    /\ pc = "check"
    /\ total_sequences # 0
    /\ \E m \in {"input_not_found", "unexpected"} : msg' = m
    /\ pc' = "done"
    /\ UNCHANGED <<plotVars, input_exists, fieldnames_ok, base_sequence, records, outFile,
                   mutation_counts, total_sequences, idx, wrow, inOpen, outOpen,
                   warnings, calls, outAtCall, writtenTables>>

\* lines 55-60: one row of the table is written
WriteRow ==
    /\ pc = "write"
    /\ wrow < Len(base_sequence)
    /\ mutation_counts' = Touch(mutation_counts, wrow)
    /\ outFile' = [outFile EXCEPT
                     !.rows = Append(@, TableRow(mutation_counts, total_sequences, wrow))]
    /\ wrow' = wrow + 1
    /\ UNCHANGED <<plotVars, input_exists, fieldnames_ok, base_sequence, records, pc,
                   total_sequences, idx, inOpen, outOpen, msg, warnings, calls,
                   outAtCall, writtenTables>>

\* line 60 raises (an I/O error of the write): the with closes the file and
\* lines 66-67 report it; what was written so far stays in the file
WriteFails ==
    /\ pc = "write"
    /\ wrow < Len(base_sequence)
    /\ outOpen' = FALSE
    /\ msg' = "unexpected"
    /\ pc' = "done"
    /\ UNCHANGED <<plotVars, input_exists, fieldnames_ok, base_sequence, records, outFile,
                   mutation_counts, total_sequences, idx, wrow, inOpen,
                   warnings, calls, outAtCall, writtenTables>>

\* lines 55, 62: the loop ends, the with closes the file, success is printed
EndWrite ==
    /\ pc = "write"
    /\ wrow = Len(base_sequence)
    /\ outOpen' = FALSE
    /\ msg' = "written"
    /\ pc' = "done"
    /\ writtenTables' = Append(writtenTables, outFile)
    /\ UNCHANGED <<plotVars, input_exists, fieldnames_ok, base_sequence, records, outFile,
                   mutation_counts, total_sequences, idx, wrow, inOpen,
                   warnings, calls, outAtCall>>

CalcNext ==
    \/ Call
    \/ OpenInputMissing
    \/ OpenInput
    \/ MissingColumn
    \/ ColumnFound
    \/ SkipRow
    \/ CountRow
    \/ RowWithoutField
    \/ EndScan
    \/ NoValidSequences
    \/ OpenOutput
    \/ OpenOutputFails
    \/ WriteRow
    \/ WriteFails
    \/ EndWrite

----------------------------------------------------------------------------
(* Pure helpers of plot_mutation_heatmap_v6 *)

\* line 110: amino_acids = df_selected.columns.tolist(), the data columns of
\* the CSV in file order; the modelled tables have the columns A and C
Columns == <<"A", "C">>

\* line 109: df.loc[positions_to_plot] on a table with unique positions: the
\* rows of the listed positions in the listed order (a position listed twice
\* is selected twice)
SelectRows(tbl, wanted) ==
    [k \in 1..Len(wanted) |-> [pos |-> wanted[k], row |-> tbl[wanted[k]]]]

\* line 132: df_selected.loc[pos, aa] finds every selected row labelled pos
LocRows(sel, pos) == {k \in 1..Len(sel) : sel[k].pos = pos}

\* line 123: the smallest positive value of the selection; 0 when the
\* selection is empty and -1 (for NaN) when it has no positive value
PositiveValues(sel) ==
    {sel[k].row[Columns[c]] : k \in 1..Len(sel), c \in 1..Len(Columns)} \ {0}
VminNonZero(sel) ==
    IF Len(sel) = 0 THEN 0
    ELSE IF PositiveValues(sel) = {} THEN -1
    ELSE CHOOSE v \in PositiveValues(sel) : \A w \in PositiveValues(sel) : v <= w

\* line 133: the fill colour: the fixed gray for 0, otherwise the place of the
\* frequency between vmin and 1 on the gray-to-blue map (numerator and
\* denominator of Normalize, which maps everything to 0 when vmin = vmax)
FillColor(frequency, vmin) ==
    IF frequency = 0
    THEN [name |-> "#808080", num |-> 0, den |-> 1]
    ELSE IF vmin = Million
         THEN [name |-> "cmap", num |-> 0, den |-> 1]
         ELSE [name |-> "cmap", num |-> frequency - vmin, den |-> Million - vmin]

\* line 137: f"{frequency:.2f}" as a number of hundredths (the values of the
\* modelled tables are no ties)
Fmt2(frequency) == (frequency + 5000) \div 10000

NoColor == [name |-> "none", num |-> 0, den |-> 1]

\* lines 134-135: the cell's rectangle
FillPatch(j, i, frequency, vmin) ==
    [kind |-> "fill", j |-> j, i |-> i, color |-> FillColor(frequency, vmin),
     edge |-> "black", label |-> -1]
\* line 137: the cell's annotation
TextPatch(j, i, frequency) ==
    [kind |-> "text", j |-> j, i |-> i, color |-> NoColor, edge |-> "white",
     label |-> Fmt2(frequency)]
\* lines 141-142: the unfilled orange rectangle
HighlightPatch(j, i) ==
    [kind |-> "highlight", j |-> j, i |-> i, color |-> NoColor, edge |-> "orange",
     label |-> -1]

\* line 140: pos in highlight_cells and aa in highlight_cells[pos]
IsHighlighted(hl, pos, aa) == pos \in DOMAIN hl /\ aa \in hl[pos]

\* Variant of CellPatches: the highlight is nested under `if frequency > 0`
CellPatches_HighlightNonZeroOnly(hl, j, i, pos, aa, frequency, vmin) ==
    <<FillPatch(j, i, frequency, vmin)>>
    \o (IF frequency > 0
        THEN <<TextPatch(j, i, frequency)>>
             \o (IF IsHighlighted(hl, pos, aa) THEN <<HighlightPatch(j, i)>> ELSE <<>>)
        ELSE <<>>)

\* lines 131-142: what one pass of the inner loop body adds to the axes
CellPatches(hl, j, i, pos, aa, frequency, vmin) ==
    <<FillPatch(j, i, frequency, vmin)>>
    \o (IF frequency > 0 THEN <<TextPatch(j, i, frequency)>> ELSE <<>>)
    \o (IF IsHighlighted(hl, pos, aa) THEN <<HighlightPatch(j, i)>> ELSE <<>>)

NoImage == [exists |-> FALSE, patches |-> <<>>]

----------------------------------------------------------------------------
(* plot_mutation_heatmap_v6, lines 92-185 *)

\* line 104: the function is entered
PlotCall ==
    /\ ppc = "idle"
    /\ ppc' = "read"
    /\ UNCHANGED <<calcVars, table_exists, table, positions_to_plot, highlight_cells,
                   image, df_selected, patches, ci, cj, pmsg>>

\* line 105 when the file is missing: FileNotFoundError, lines 180-181
ReadCsvMissing ==
    /\ ppc = "read"
    /\ ~table_exists
    /\ pmsg' = "input_not_found"
    /\ ppc' = "done"
    /\ UNCHANGED <<calcVars, table_exists, table, positions_to_plot, highlight_cells,
                   image, df_selected, patches, ci, cj>>

\* lines 105-106: the table is read and indexed by Position
ReadCsv ==
    /\ ppc = "read"
    /\ table_exists
    /\ ppc' = "select"
    /\ UNCHANGED <<calcVars, table_exists, table, positions_to_plot, highlight_cells,
                   image, df_selected, patches, ci, cj, pmsg>>

\* line 109 with a listed position that is no row of the table: KeyError,
\* lines 182-183
SelectMissing ==
    /\ ppc = "select"
    /\ \E k \in 1..Len(positions_to_plot) : positions_to_plot[k] \notin DOMAIN table
    /\ pmsg' = "position_not_found"
    /\ ppc' = "done"
    /\ UNCHANGED <<calcVars, table_exists, table, positions_to_plot, highlight_cells,
                   image, df_selected, patches, ci, cj>>

\* Variant of Select: the figure is saved right after the selection, before
\* the cells are drawn
Select_SavesEarly ==
    /\ ppc = "select"
    /\ \A k \in 1..Len(positions_to_plot) : positions_to_plot[k] \in DOMAIN table
    /\ df_selected' = SelectRows(table, positions_to_plot)
    /\ image' = [exists |-> TRUE, patches |-> patches]
    /\ ppc' = "figure"
    /\ UNCHANGED <<calcVars, table_exists, table, positions_to_plot, highlight_cells,
                   patches, ci, cj, pmsg>>

\* lines 109-111: the listed rows are selected
Select ==
    /\ ppc = "select"
    /\ \A k \in 1..Len(positions_to_plot) : positions_to_plot[k] \in DOMAIN table
    /\ df_selected' = SelectRows(table, positions_to_plot)
    /\ ppc' = "figure"
    /\ UNCHANGED <<calcVars, table_exists, table, positions_to_plot, highlight_cells,
                   image, patches, ci, cj, pmsg>>

\* lines 114-126: the figure, the colour map and the norm are created
CreateFigure ==
    /\ ppc = "figure"
    /\ patches' = <<>>
    /\ ci' = 0
    /\ cj' = 0
    /\ ppc' = "draw"
    /\ UNCHANGED <<calcVars, table_exists, table, positions_to_plot, highlight_cells,
                   image, df_selected, pmsg>>

\* lines 131-142: one pass of the inner loop body, for amino acid index ci and
\* column index cj, when the position's row was selected once
DrawCell ==
    /\ ppc = "draw"
    /\ ci < Len(Columns)
    /\ cj < Len(positions_to_plot)
    /\ LET pos == positions_to_plot[cj + 1]
           aa == Columns[ci + 1]
       IN  /\ Cardinality(LocRows(df_selected, pos)) = 1
           /\ LET k == CHOOSE x \in LocRows(df_selected, pos) : TRUE
                  frequency == df_selected[k].row[aa]
              IN  patches' = patches \o CellPatches(highlight_cells, cj, ci, pos, aa,
                                                    frequency, VminNonZero(df_selected))
    /\ IF cj + 1 < Len(positions_to_plot)
       THEN cj' = cj + 1 /\ ci' = ci
       ELSE cj' = 0 /\ ci' = ci + 1
    /\ UNCHANGED <<calcVars, table_exists, table, positions_to_plot, highlight_cells,
                   image, ppc, df_selected, pmsg>>

\* lines 132-133 when the position was selected more than once: .loc gives a
\* Series, `frequency == 0` has no truth value, ValueError, lines 184-185
DrawCellAmbiguous ==
    /\ ppc = "draw"
    /\ ci < Len(Columns)
    /\ cj < Len(positions_to_plot)
    /\ Cardinality(LocRows(df_selected, positions_to_plot[cj + 1])) > 1
    /\ pmsg' = "unexpected"
    /\ ppc' = "done"
    /\ UNCHANGED <<calcVars, table_exists, table, positions_to_plot, highlight_cells,
                   image, df_selected, patches, ci, cj>>

\* line 129 when the loops are over (at once when no position is listed)
EndDraw ==
    /\ ppc = "draw"
    /\ (ci = Len(Columns) \/ Len(positions_to_plot) = 0)
    /\ ppc' = "finish"
    /\ UNCHANGED <<calcVars, table_exists, table, positions_to_plot, highlight_cells,
                   image, df_selected, patches, ci, cj, pmsg>>

\* lines 145-178: axes, colour bar, layout, then savefig writes the image
SaveFigure ==
    /\ ppc = "finish"
    /\ image' = [exists |-> TRUE, patches |-> patches]
    /\ pmsg' = "saved"
    /\ ppc' = "done"
    /\ UNCHANGED <<calcVars, table_exists, table, positions_to_plot, highlight_cells,
                   df_selected, patches, ci, cj>>

\* a call into matplotlib raises (lines 116-126 for the figure, lines 145-177
\* for the axes, the colour bar, the layout and savefig: a figure of width 0,
\* a NaN norm, a path that cannot be written); lines 180-185 report it
LibraryFails ==
    /\ ppc \in {"figure", "finish"}
    /\ \E m \in {"unexpected", "input_not_found"} : pmsg' = m
    /\ ppc' = "done"
    /\ UNCHANGED <<calcVars, table_exists, table, positions_to_plot, highlight_cells,
                   image, df_selected, patches, ci, cj>>

PlotNext ==
    \/ PlotCall
    \/ ReadCsvMissing
    \/ ReadCsv
    \/ SelectMissing
    \/ Select
    \/ CreateFigure
    \/ DrawCell
    \/ DrawCellAmbiguous
    \/ EndDraw
    \/ SaveFigure
    \/ LibraryFails

----------------------------------------------------------------------------
(* Initial states *)

CalcLocalsInit ==
    /\ outFile = NoFile
    /\ pc = "idle"
    /\ mutation_counts = EmptyDict
    /\ total_sequences = 0
    /\ idx = 0
    /\ wrow = 0
    /\ inOpen = FALSE
    /\ outOpen = FALSE
    /\ msg = "none"
    /\ warnings = 0
    /\ calls = 0
    /\ outAtCall = NoFile
    /\ writtenTables = <<>>

PlotIdle ==
    /\ table_exists = FALSE
    /\ table = EmptyDict
    /\ positions_to_plot = <<>>
    /\ highlight_cells = EmptyDict
    /\ image = NoImage
    /\ ppc = "idle"
    /\ df_selected = <<>>
    /\ patches = <<>>
    /\ ci = 0
    /\ cj = 0
    /\ pmsg = "none"

\* The concrete scenario of the specification: reference "AAAA", the rows
\* AAAA, ABAA, AABA, AAAA and optionally one more row of length 3 anywhere.
ScenarioBase == <<"A", "A", "A", "A">>
ScenarioRows == <<RowWith(<<"A", "A", "A", "A">>), RowWith(<<"A", "B", "A", "A">>),
                  RowWith(<<"A", "A", "B", "A">>), RowWith(<<"A", "A", "A", "A">>)>>
ScenarioExtraRows == {RowWith(s) : s \in StringsOfLen({"A", "B"}, Len(ScenarioBase) - 1)}
InsertAt(l, k, x) == SubSeq(l, 1, k) \o <<x>> \o SubSeq(l, k + 1, Len(l))
ScenarioInputs ==
    {ScenarioRows} \cup
    {InsertAt(ScenarioRows, k, x) : k \in 0..Len(ScenarioRows), x \in ScenarioExtraRows}

\* Bounded inputs: every reference over RefSymbols and every list of rows
\* that fits MaxSize; a missing file or a file without the column has no rows
\* that matter.
BoundedInput ==
    /\ input_exists \in BOOLEAN
    /\ fieldnames_ok \in BOOLEAN
    /\ \E L \in 0..MaxSize :
         /\ base_sequence \in StringsOfLen(RefSymbols, L)
         /\ records \in ListsUpTo(RowsFor(Symbols, L), MaxSize - L)
    /\ (~input_exists => fieldnames_ok /\ records = <<>>)
    /\ (~fieldnames_ok => records = <<>>)

ScenarioInput ==
    /\ input_exists = TRUE
    /\ fieldnames_ok = TRUE
    /\ base_sequence = ScenarioBase
    /\ records \in ScenarioInputs

CalcInit ==
    /\ (BoundedInput \/ ScenarioInput)
    /\ CalcLocalsInit
    /\ PlotIdle

SpecCalc == CalcInit /\ [][CalcNext]_vars

\* rows of the modelled tables: a zero and a non-zero cell each
TableRows == {[c \in {"A", "C"} |-> IF c = "C" THEN Million \div 4 ELSE 0],
              [c \in {"A", "C"} |-> IF c = "A" THEN Million ELSE 0]}

\* values of highlight_cells: one column, or a column and a symbol that is
\* no column of the table
HighlightValues == {{"A"}, {"C", "X"}}

RECURSIVE PartialMaps(_, _)
PartialMaps(K, V) ==
    IF K = {} THEN {EmptyDict}
    ELSE LET k == CHOOSE x \in K : TRUE
             rest == PartialMaps(K \ {k}, V)
         IN  rest \cup {[x \in DOMAIN m \cup {k} |-> IF x = k THEN v ELSE m[x]] :
                          m \in rest, v \in V}

CalcIdle ==
    /\ input_exists = FALSE
    /\ fieldnames_ok = FALSE
    /\ base_sequence = <<>>
    /\ records = <<>>
    /\ CalcLocalsInit

PlotInit ==
    /\ table_exists \in BOOLEAN
    /\ table \in PartialMaps(1..MaxPos, TableRows)
    /\ (~table_exists => table = EmptyDict)
    /\ positions_to_plot \in ListsUpTo(1..(MaxPos + 1), MaxPlot)
    /\ highlight_cells \in PartialMaps(1..(MaxPos + 1), HighlightValues)
    /\ image = NoImage
    /\ ppc = "idle"
    /\ df_selected = <<>>
    /\ patches = <<>>
    /\ ci = 0
    /\ cj = 0
    /\ pmsg = "none"
    /\ CalcIdle

SpecPlot == PlotInit /\ [][PlotNext]_vars


----------------------------------------------------------------------------
(* Quantities the properties of calculate_mutation_frequencies speak of,    *)
(* computed from the input alone                                            *)

Abs(x) == IF x < 0 THEN -x ELSE x

RECURSIVE SumSeq(_)
SumSeq(q) == IF q = <<>> THEN 0 ELSE Head(q) + SumSeq(Tail(q))

RECURSIVE SumDict(_, _)
SumDict(d, S) ==
    IF S = {} THEN 0
    ELSE LET k == CHOOSE x \in S : TRUE IN d[k] + SumDict(d, S \ {k})

\* The 20 columns of the table, in the order the specification gives
CanonicalColumns == <<"A", "C", "D", "E", "F", "G", "H", "I", "K", "L",
                      "M", "N", "P", "Q", "R", "S", "T", "V", "W", "Y">>
CanonicalSet == {CanonicalColumns[k] : k \in 1..Len(CanonicalColumns)}

RefLen == Len(base_sequence)
NumRecords == Len(records)

\* the rows among the first n whose sequence has the reference length
ValidIn(n) == {k \in 1..n : HasField(records[k]) /\ Len(records[k][1]) = RefLen}
\* the rows among the first n whose sequence has another length
WrongLengthIn(n) == {k \in 1..n : HasField(records[k]) /\ Len(records[k][1]) # RefLen}
\* the symbol of row k at 0-based position i
SymbolAt(k, i) == records[k][1][i + 1]
\* valid rows among the first n that differ from the reference at position i
MismatchesIn(n, i) ==
    Cardinality({k \in ValidIn(n) : SymbolAt(k, i) # base_sequence[i + 1]})
\* ... and carry the symbol sym there
ObservedIn(n, i, sym) ==
    Cardinality({k \in ValidIn(n) : SymbolAt(k, i) = sym /\ sym # base_sequence[i + 1]})
\* ... and carry one of the 20 symbols of the alphabet there
AlphabetMismatchesIn(n, i) ==
    Cardinality({k \in ValidIn(n) : SymbolAt(k, i) # base_sequence[i + 1]
                                     /\ SymbolAt(k, i) \in CanonicalSet})

\* sum of mutation_counts[i] over all symbols
RecordedAt(i) ==
    IF i \in DOMAIN mutation_counts
    THEN SumDict(mutation_counts[i], DOMAIN mutation_counts[i])
    ELSE 0

\* sum of the 20 data cells of the written row of 1-based position p
RowSum(p) == SumSeq(Tail(outFile.rows[p]))

ScanComplete == pc \in {"check", "write"} \/ (pc = "done" /\ msg \in {"no_valid", "written"})
Written == pc = "done" /\ msg = "written"
Failed == pc = "done" /\ msg \in {"input_not_found", "no_column", "no_valid", "unexpected"}

----------------------------------------------------------------------------
(* Properties of calculate_mutation_frequencies *)

\* the symbols recorded or read so far at position i
SymbolsSeenAt(i) ==
    (IF i \in DOMAIN mutation_counts THEN DOMAIN mutation_counts[i] ELSE {})
    \cup {SymbolAt(k, i) : k \in ValidIn(idx)}

\* C1: of N rows of which K have a wrong length exactly N-K are counted and
\* total_sequences is N-K when the scan is over; at every point of the scan
\* the total and the counts are those of the valid rows read so far (a skipped
\* row adds a warning and changes neither), the scan ends only at the last
\* row; with N-K = 0 the error is printed and the output file is left as it
\* was.
C1_SkippedRowsNotCounted ==
    /\ total_sequences = Cardinality(ValidIn(idx))
    /\ warnings = Cardinality(WrongLengthIn(idx))
    /\ \A i \in 0..(RefLen - 1) : \A sym \in SymbolsSeenAt(i) :
         GetCount(mutation_counts, i, sym) = ObservedIn(idx, i, sym)
    /\ ScanComplete =>
         /\ idx = NumRecords
         /\ total_sequences = NumRecords - Cardinality(WrongLengthIn(NumRecords))
    /\ (ScanComplete /\ NumRecords - Cardinality(WrongLengthIn(NumRecords)) = 0) =>
         /\ pc # "write"
         /\ pc = "done" => (msg = "no_valid" /\ outFile = outAtCall)

C1_Witness ==
    /\ Written
    /\ Cardinality(WrongLengthIn(NumRecords)) >= 1
    /\ total_sequences >= 2

\* C2 as stated: in every written table, the sum of the 20 cells of a row
\* times the total equals the number of valid rows that differ from the
\* reference at that position, whatever symbol they carry there.
C2_RowSumEqualsMismatches ==
    Written =>
      \A p \in 1..RefLen :
        RowSum(p) * total_sequences = Million * MismatchesIn(NumRecords, p - 1)

\* C2 as amended: in every written table, the sum of the 20 cells of a row
\* times the total equals, up to the rounding of the cells (half a millionth
\* for each of the 20 cells), the number of valid rows that differ from the
\* reference at that position and carry one of the 20 symbols of the alphabet
\* there.
C2_RowSumWithinRounding ==
    Written =>
      \A p \in 1..RefLen :
        2 * Abs(RowSum(p) * total_sequences - Million * AlphabetMismatchesIn(NumRecords, p - 1))
          <= Len(CanonicalColumns) * total_sequences

C2_Witness ==
    /\ Written
    /\ \E p \in 1..RefLen :
         /\ RowSum(p) * total_sequences # Million * AlphabetMismatchesIn(NumRecords, p - 1)
         /\ AlphabetMismatchesIn(NumRecords, p - 1) < MismatchesIn(NumRecords, p - 1)

\* C3: a written table has the header Position, A, C, ..., Y, one row per
\* reference position numbered 1..L in increasing order, each with 20 cells
\* that show count/total to six decimals for its position and symbol, and
\* 0.000000 for a pair never observed as a mismatch.
C3_TableShape ==
    Written =>
      /\ outFile.exists
      /\ outFile.header = <<"Position">> \o CanonicalColumns
      /\ Len(outFile.rows) = RefLen
      /\ \A p \in 1..RefLen :
           LET row == outFile.rows[p] IN
           /\ Len(row) = Len(CanonicalColumns) + 1
           /\ row[1] = p
           /\ \A k \in 1..Len(CanonicalColumns) :
                LET c == ObservedIn(NumRecords, p - 1, CanonicalColumns[k])
                    t == Cardinality(ValidIn(NumRecords))
                IN  /\ 2 * Abs(row[k + 1] * t - Million * c) <= t
                    /\ c = 0 => row[k + 1] = 0

C3_Witness ==
    /\ Written
    /\ RefLen >= 2
    /\ \E p \in 1..RefLen, k \in 1..Len(CanonicalColumns) :
         /\ outFile.rows[p][k + 1] > 0
         /\ outFile.rows[p][k + 1] < Million
    /\ \E k \in ValidIn(NumRecords), i \in 0..(RefLen - 1) : SymbolAt(k, i) \notin CanonicalSet

\* C4 as stated: a call that ends in a reported failure leaves the output path
\* as it was when the call started, and after a missing column nothing was
\* counted.
C4_NoOutputOnFailure ==
    /\ Failed => outFile = outAtCall
    /\ (pc = "done" /\ msg = "no_column") =>
         (idx = 0 /\ total_sequences = 0 /\ mutation_counts = EmptyDict)

\* the cell of the file's row p in the column named sym, -1 when the header
\* names no such column
CellOf(file, p, sym) ==
    IF \E k \in 1..Len(file.header) : file.header[k] = sym
    THEN file.rows[p][CHOOSE k \in 1..Len(file.header) : file.header[k] = sym]
    ELSE -1
AllZero(row) == \A k \in 2..Len(row) : row[k] = 0
IsScenario == base_sequence = ScenarioBase /\ records \in ScenarioInputs

\* C6 as stated: in the scenario the written table shows B: 0.250000 at
\* positions 2 and 3 and zeros at positions 1 and 4, with a denominator of 4.
C6_ScenarioShowsB ==
    (IsScenario /\ Written) =>
      /\ total_sequences = Len(ScenarioRows)
      /\ CellOf(outFile, 2, "B") = Million \div Len(ScenarioRows)
      /\ CellOf(outFile, 3, "B") = Million \div Len(ScenarioRows)
      /\ AllZero(outFile.rows[1])
      /\ AllZero(outFile.rows[4])

\* C6 as amended: in the scenario one B mismatch is counted at position 2 and
\* one at position 3 (1-indexed) out of a total of 4, the row of length 3 is
\* skipped and not part of the total; B is not one of the 20 columns, so the
\* written table has no cell for it and all cells of all four rows are
\* 0.000000.
C6_ScenarioTable ==
    (IsScenario /\ Written) =>
      /\ total_sequences = Len(ScenarioRows)
      /\ warnings = NumRecords - Len(ScenarioRows)
      /\ \A i \in 0..(RefLen - 1) :
           RecordedAt(i) = (IF i \in {1, 2} THEN 1 ELSE 0)
      /\ mutation_counts[1]["B"] = 1
      /\ mutation_counts[2]["B"] = 1
      /\ CellOf(outFile, 2, "B") = -1
      /\ Len(outFile.rows) = Len(ScenarioBase)
      /\ \A p \in 1..Len(outFile.rows) : AllZero(outFile.rows[p])

C6_Witness == IsScenario /\ Written /\ NumRecords = Len(ScenarioRows) + 1

\* C7: at every point of the scan and for every position i, the mismatches
\* recorded at i are those of the valid rows read so far that differ from the
\* reference at i (so a row equal to the reference at i adds nothing at i);
\* they never exceed the mismatches at i in the whole input nor the total of
\* valid sequences.
C7_RecordedMismatchesBounded ==
    \A i \in 0..(RefLen - 1) :
      /\ RecordedAt(i) = MismatchesIn(idx, i)
      /\ RecordedAt(i) <= MismatchesIn(NumRecords, i)
      /\ RecordedAt(i) <= total_sequences
      /\ total_sequences <= Cardinality(ValidIn(NumRecords))

C7_Witness ==
    /\ pc = "scan"
    /\ \E i \in 0..(RefLen - 1) :
         /\ RecordedAt(i) >= 1
         /\ RecordedAt(i) < MismatchesIn(NumRecords, i)
         /\ RecordedAt(i) < total_sequences

\* inputs on which every call ends in the same reported failure
InputAlwaysFails ==
    \/ ~input_exists
    \/ ~fieldnames_ok
    \/ \E k \in 1..NumRecords : ~HasField(records[k])
    \/ ValidIn(NumRecords) = {}

\* C8: every successful call on the same inputs leaves the same table, the
\* file a later call leaves is the table a single call leaves (it replaces the
\* earlier table), and on inputs that make every call fail each call leaves
\* the file as it found it.
C8_RerunIdempotent ==
    /\ \A a, b \in DOMAIN writtenTables : writtenTables[a] = writtenTables[b]
    /\ Written => outFile = writtenTables[1]
    /\ (InputAlwaysFails /\ pc = "done") => (Failed /\ outFile = outAtCall)

C8_Witness ==
    /\ Written
    /\ Len(writtenTables) >= 2
    /\ \E p \in 1..RefLen : ~AllZero(outFile.rows[p])

\* C9: at most one of the two files is open; the input file is open only
\* between its open and the end of the scan; the output file is open only
\* while rows are written, after the input was scanned to its end and closed
\* and the total was found non-zero; no file is open once the call returned.
C9_FileHandlesScoped ==
    /\ ~(inOpen /\ outOpen)
    /\ inOpen <=> pc \in {"fieldnames", "scan"}
    /\ outOpen <=> pc = "write"
    /\ outOpen => (idx = NumRecords /\ total_sequences # 0)
    /\ pc \in {"idle", "done"} => (~inOpen /\ ~outOpen)

C9_Witness ==
    /\ pc = "done"
    /\ msg = "unexpected"
    /\ idx >= 2
    /\ ~inOpen

----------------------------------------------------------------------------
(* Properties of plot_mutation_heatmap_v6 *)

PlotSaved == ppc = "done" /\ pmsg = "saved"
PlotFailed == ppc = "done" /\ pmsg \in {"input_not_found", "position_not_found", "unexpected"}
NumColumns == Len(positions_to_plot)
NumAminoAcids == Len(Columns)
PatchesOf(ps, kind, j, i) ==
    {k \in 1..Len(ps) : ps[k].kind = kind /\ ps[k].j = j /\ ps[k].i = i}
FillsIn(ps) == {k \in 1..Len(ps) : ps[k].kind = "fill"}
HasAbsentPosition == \E k \in 1..NumColumns : positions_to_plot[k] \notin DOMAIN table
HasRepeatedPosition ==
    \E a, b \in 1..NumColumns : a < b /\ positions_to_plot[a] = positions_to_plot[b]

\* C5: every call comes to its end, whatever the table, the listed positions
\* (none, an absent one, a repeated one) and the highlights: from every point
\* of the body some step is possible, and at the end either the image was
\* written and success reported or an error was reported and no image was
\* written; a listed position that is no row of the table is reported and no
\* image is written; the image is written only as the last step, with every
\* cell drawn.
C5_PlotEndsCleanly ==
    /\ ppc # "done" => ENABLED PlotNext
    /\ ppc = "done" => (PlotSaved \/ PlotFailed)
    /\ PlotSaved => (image.exists /\ image.patches = patches)
    /\ PlotFailed => image = NoImage
    /\ image.exists =>
         (PlotSaved /\ Cardinality(FillsIn(image.patches)) = NumColumns * NumAminoAcids)
    /\ (ppc = "done" /\ table_exists /\ HasAbsentPosition) =>
         (pmsg = "position_not_found" /\ image = NoImage)

C5_Witness ==
    /\ PlotFailed
    /\ HasRepeatedPosition
    /\ patches # <<>>
    /\ image = NoImage

\* C10: in a saved figure every cell (column j, amino acid i) has one fill
\* rectangle coloured by the frequency of positions_to_plot[j], an annotation
\* exactly when that frequency is not 0, and the orange overlay exactly when
\* positions_to_plot[j] is a key of highlight_cells and the amino acid is among
\* its values; the overlay comes after the cell's fill rectangle; nothing else
\* is drawn, so highlights of positions that are not plotted draw nothing.
C10_HighlightOverlay ==
    PlotSaved =>
      /\ \A k \in 1..Len(patches) :
           patches[k].j \in 0..(NumColumns - 1) /\ patches[k].i \in 0..(NumAminoAcids - 1)
      /\ \A j \in 0..(NumColumns - 1), i \in 0..(NumAminoAcids - 1) :
           LET pos == positions_to_plot[j + 1]
               aa == Columns[i + 1]
               f == table[pos][aa]
               fills == PatchesOf(patches, "fill", j, i)
               texts == PatchesOf(patches, "text", j, i)
               overlays == PatchesOf(patches, "highlight", j, i)
           IN  /\ Cardinality(fills) = 1
               /\ \A k \in fills :
                    /\ (f = 0) <=> (patches[k].color.name = "#808080")
                    /\ (f # 0) =>
                         (patches[k].color.name = "cmap"
                          /\ patches[k].color.num = f - VminNonZero(df_selected))
               /\ Cardinality(texts) = (IF f # 0 THEN 1 ELSE 0)
               /\ \A k \in texts : 2 * Abs(patches[k].label * 10000 - f) <= 10000
               /\ Cardinality(overlays) =
                    (IF pos \in DOMAIN highlight_cells /\ aa \in highlight_cells[pos]
                     THEN 1 ELSE 0)
               /\ \A h \in overlays, k \in fills : h > k /\ patches[h].edge = "orange"

C10_Witness ==
    /\ PlotSaved
    /\ \E j \in 0..(NumColumns - 1), i \in 0..(NumAminoAcids - 1) :
         /\ table[positions_to_plot[j + 1]][Columns[i + 1]] = 0
         /\ PatchesOf(patches, "highlight", j, i) # {}
    /\ \E j \in 0..(NumColumns - 1), i \in 0..(NumAminoAcids - 1) :
         /\ table[positions_to_plot[j + 1]][Columns[i + 1]] # 0
         /\ PatchesOf(patches, "highlight", j, i) # {}
    /\ \E pos \in DOMAIN highlight_cells :
         \A k \in 1..NumColumns : positions_to_plot[k] # pos
    /\ NumColumns >= 2
    /\ positions_to_plot[1] > positions_to_plot[2]

====
